---- MODULE Spec2Model ----
(***************************************************************************)
(* A model of listMAdj.py: the enumeration of M-adjustment sets            *)
(* (listMAdj) and its helpers findProperCausalPath,                        *)
(* createProperBackdoorGraph, createGXBarAbove, createGXBarBelow,          *)
(* isAncestor and findDescendants, together with the d-separation test     *)
(* the source calls (networkx's d_separated).                              *)
(*                                                                         *)
(* Conventions.  A node is a positive integer; Python's None is 0.  A      *)
(* graph (networkx DiGraph) is a record [node |-> set of nodes, edge |->   *)
(* set of <<source, sink>> pairs].  A Python list is a sequence.  A        *)
(* variable record of V is a pair <<name, indicator or None>>.  The        *)
(* successors and predecessors of a node are iterated in increasing node   *)
(* order.  bestSet is <<>> for None and <<Z>> for the list Z.              *)
(***************************************************************************)
EXTENDS Integers, Sequences, FiniteSets, TLC

\* ------------------------------------------------------------------ bounds
\* Nodes of the generated graphs are 1..NumNodes.
NumNodes == 4
\* V has at most MaxV entries in the generated inputs.
MaxV == 2
\* A list handed to a helper called on its own has at most MaxList nodes.
MaxList == 2

\* The graphs that may hold a cycle have the nodes 1..NumLoopNodes.
NumLoopNodes == 3
\* findProperCausalPath is followed while pathSoFar has at most MaxDepth
\* vertices; no path of an acyclic input is that long.
MaxDepth == 6

None == 0

\* ------------------------------------------------------- sets and sequences
RECURSIVE SortedSeq(_)
SortedSeq(S) ==
    IF S = {} THEN <<>>
    ELSE LET m == CHOOSE a \in S : \A b \in S : a <= b
         IN <<m>> \o SortedSeq(S \ {m})

Range(s) == {s[k] : k \in 1..Len(s)}

Front(s) == SubSeq(s, 1, Len(s) - 1)

Last(s) == s[Len(s)]

RECURSIVE Pow2(_)
Pow2(n) == IF n = 0 THEN 1 ELSE 2 * Pow2(n - 1)

\* ------------------------------------------------------------ DiGraph
\* G.successors(v): the sinks of the edges out of v.
successors(G, v) == SortedSeq({e[2] : e \in {d \in G.edge : d[1] = v}})

\* G.predecessors(v): the sources of the edges into v.
predecessors(G, v) == SortedSeq({e[1] : e \in {d \in G.edge : d[2] = v}})

\* G.has_edge(u, v)
has_edge(G, u, v) == <<u, v>> \in G.edge

\* G.remove_edge(u, v) on a graph that has the edge.
remove_edge(G, u, v) == [G EXCEPT !.edge = @ \ {<<u, v>>}]

\* ------------------------------------------------ findProperCausalPath
\* Truncate with an if for the while: at most one vertex is popped.
TruncateOnce(path, parent) ==
    IF Len(path) > 0 /\ path[Len(path)] # parent
    THEN SubSeq(path, 1, Len(path) - 1)
    ELSE path

\* The inner while loop: pop pathSoFar until its last element is parent.
RECURSIVE Truncate(_, _)
Truncate(path, parent) ==
    IF Len(path) > 0 /\ Last(path) # parent
    THEN Truncate(Front(path), parent)
    ELSE path

\* PushChildren that pushes the popped vertex v back under its children.
PushChildrenAndSelf(G, v) ==
    LET ch == successors(G, v)
    IN <<<<v, v>>>> \o [k \in 1..Len(ch) |-> <<ch[k], v>>]

\* The for loop over G.successors(v): one stack entry (child, v) per child.
PushChildren(G, v) ==
    LET ch == successors(G, v)
    IN [k \in 1..Len(ch) |-> <<ch[k], v>>]

\* A path as a list of vertices turned into its list of edges.
PathToEdges(path) == [k \in 1..(Len(path) - 1) |-> <<path[k], path[k + 1]>>]

\* The conversion of the list paths into pathEdges.
ConvertPaths(ps) == [k \in 1..Len(ps) |-> PathToEdges(ps[k])]

\* The while loop of findProperCausalPath run to the empty stack: the list
\* paths.
RECURSIVE DFSLoop(_, _, _, _, _)
DFSLoop(G, y, st, path, ps) ==
    IF Len(st) = 0 THEN ps
    ELSE LET curVertex == Last(st)
             p == Append(Truncate(path, curVertex[2]), curVertex[1])
         IN DFSLoop(G, y, Front(st) \o PushChildren(G, curVertex[1]), p,
                    IF curVertex[1] = y THEN Append(ps, p) ELSE ps)

findProperCausalPath(G, x, y) ==
    ConvertPaths(DFSLoop(G, y, <<<<x, None>>>>, <<>>, <<>>))

\* ---------------------------------------------------- graph transforms
\* RemoveFirstEdges that removes every edge of every path.
RemoveAllEdges(Gc, ps, k) ==
    [Gc EXCEPT !.edge = @ \ UNION {Range(ps[p]) : p \in 1..Len(ps)}]

\* The loop of createProperBackdoorGraph from the path k on: the graph
\* G_copy it leaves.
RECURSIVE RemoveFirstEdges(_, _, _)
RemoveFirstEdges(Gc, ps, k) ==
    IF k > Len(ps) THEN Gc
    ELSE LET firstEdge == ps[k][1]
             source == firstEdge[1]
             sink == firstEdge[2]
         IN RemoveFirstEdges(
                IF has_edge(Gc, source, sink)
                THEN remove_edge(Gc, source, sink) ELSE Gc,
                ps, k + 1)

\* firstEdge = path[0] raises IndexError on a path without edges.
RaisesIndexError(ps) == \E k \in 1..Len(ps) : Len(ps[k]) = 0

\* G.remove_edge(u, v) raises NetworkXError when the graph lacks the edge.
remove_edge_raises(G, u, v) == ~has_edge(G, u, v)

\* Whether a remove_edge call of the loop of createProperBackdoorGraph, from
\* the path k on, raises.
RECURSIVE RemoveFirstEdgesRaises(_, _, _)
RemoveFirstEdgesRaises(Gc, ps, k) ==
    IF k > Len(ps) THEN FALSE
    ELSE LET firstEdge == ps[k][1]
             source == firstEdge[1]
             sink == firstEdge[2]
         IN IF has_edge(Gc, source, sink)
            THEN \/ remove_edge_raises(Gc, source, sink)
                 \/ RemoveFirstEdgesRaises(remove_edge(Gc, source, sink), ps, k + 1)
            ELSE RemoveFirstEdgesRaises(Gc, ps, k + 1)

\* createProperBackdoorGraph that stops after the first path.
createProperBackdoorGraphFirstPath(G, ps) ==
    IF Len(ps) = 0 THEN G ELSE [G EXCEPT !.edge = @ \ {ps[1][1]}]

createProperBackdoorGraph(G, ps) == RemoveFirstEdges(G, ps, 1)

RECURSIVE RemoveEdgesFrom(_, _, _)
RemoveEdgesFrom(Gc, es, k) ==
    IF k > Len(es) THEN Gc
    ELSE RemoveEdgesFrom(remove_edge(Gc, es[k][1], es[k][2]), es, k + 1)

createGXBarAbove(G, x) ==
    LET ps == predecessors(G, x)
    IN RemoveEdgesFrom(G, [k \in 1..Len(ps) |-> <<ps[k], x>>], 1)

createGXBarBelow(G, x) ==
    LET ch == successors(G, x)
    IN RemoveEdgesFrom(G, [k \in 1..Len(ch) |-> <<x, ch[k]>>], 1)

\* ---- the transforms on graph objects
\* The graph objects of a call are a sequence heap; a reference is an index
\* into it.  A transform returns the heap it leaves and the reference of
\* its result.

\* copy that hands back the graph object it was given.
copyAlias(h, r) == [heap |-> h, ref |-> r]

\* G.copy(): a new graph object with the nodes and edges of h[r].
copy(h, r) == [heap |-> Append(h, h[r]), ref |-> Len(h) + 1]

\* createProperBackdoorGraph(G, paths) with G the object g.
createProperBackdoorGraphIn(h, g, ps) ==
    LET G_copy == copy(h, g)
    IN [heap |-> [G_copy.heap EXCEPT ![G_copy.ref] = RemoveFirstEdges(@, ps, 1)],
        ref |-> G_copy.ref]

\* createGXBarAbove(G, X) with G the object g.
createGXBarAboveIn(h, g, x) ==
    LET G_copy == copy(h, g)
        ps == predecessors(h[g], x)
    IN [heap |-> [G_copy.heap EXCEPT ![G_copy.ref] =
                     RemoveEdgesFrom(@, [k \in 1..Len(ps) |-> <<ps[k], x>>], 1)],
        ref |-> G_copy.ref]

\* createGXBarBelow(G, X) with G the object g.
createGXBarBelowIn(h, g, x) ==
    LET G_copy == copy(h, g)
        ch == successors(h[g], x)
    IN [heap |-> [G_copy.heap EXCEPT ![G_copy.ref] =
                     RemoveEdgesFrom(@, [k \in 1..Len(ch) |-> <<x, ch[k]>>], 1)],
        ref |-> G_copy.ref]

\* The graphs one iteration of listMAdj builds from G, the object g:
\* G_pbd, GXBarAbove and GXBarBelow, in this order.
listMAdjGraphsIn(h, g, ps, x) ==
    LET pbd == createProperBackdoorGraphIn(h, g, ps)
        above == createGXBarAboveIn(pbd.heap, g, x)
    IN createGXBarBelowIn(above.heap, g, x)

\* ------------------------------------------------ isAncestor, findDescendants
\* The while loop of isAncestor on one stack: TRUE when x is popped.
RECURSIVE AncestorSearch(_, _, _)
AncestorSearch(G, x, st) ==
    IF Len(st) = 0 THEN FALSE
    ELSE LET curVertex == Last(st)
         IN IF curVertex = x THEN TRUE
            ELSE AncestorSearch(G, x, Front(st) \o predecessors(G, curVertex))

RECURSIVE IsAncestorFrom(_, _, _, _)
IsAncestorFrom(G, x, Vl, k) ==
    IF k > Len(Vl) THEN FALSE
    ELSE IF AncestorSearch(G, x, <<Vl[k]>>) THEN TRUE
    ELSE IsAncestorFrom(G, x, Vl, k + 1)

\* isAncestor that wants x found from every member of V.
isAncestorEveryMember(G, x, Vl) ==
    \A k \in 1..Len(Vl) : AncestorSearch(G, x, <<Vl[k]>>)

\* isAncestor that searches from the first member of V only.
isAncestorFirstMember(G, x, Vl) ==
    Len(Vl) > 0 /\ AncestorSearch(G, x, <<Vl[1]>>)

isAncestor(G, x, Vl) == IsAncestorFrom(G, x, Vl, 1)

\* The while loop of findDescendants: the list of popped vertices.  The
\* stack and the list after an iteration are bound to a, so that they are
\* computed once per iteration.
RECURSIVE DescendantSearch(_, _, _)
DescendantSearch(G, st, descendants) ==
    IF Len(st) = 0 THEN descendants
    ELSE LET curVertex == Last(st)
             after == <<Front(st) \o successors(G, curVertex),
                        Append(descendants, curVertex)>>
         IN CHOOSE r \in {DescendantSearch(G, a[1], a[2]) : a \in {after}} :
                TRUE

\* findDescendants that starts from the children of source.
findDescendantsProper(G, source) == DescendantSearch(G, successors(G, source), <<>>)

findDescendants(G, source) == DescendantSearch(G, <<source>>, <<>>)

\* ------------------------------------------------------- nx.d_separated
\* PruneLeaves that deletes nothing.
PruneLeavesNone(H, keep) == H

\* networkx's d_separated(G, x, y, z), as the releases that accept the
\* source's list and dict arguments compute it: repeatedly delete the
\* leaves that are not in x, y or z; delete the edges out of z; x and y are
\* d-separated unless a node of x and a node of y end up in the same block
\* once every weakly connected component, x and y are each merged into one
\* block.  An empty x or y gives True.
RECURSIVE PruneLeaves(_, _)
PruneLeaves(H, keep) ==
    LET leaves == {n \in H.node : (\A e \in H.edge : e[1] # n) /\ n \notin keep}
    IN IF leaves = {} THEN H
       ELSE PruneLeaves([node |-> H.node \ leaves,
                         edge |-> {e \in H.edge : e[2] \notin leaves}], keep)

\* RemoveOutEdges that deletes the edges into z instead.
RemoveInEdges(H, z) == [H EXCEPT !.edge = {e \in @ : e[2] \notin z}]

\* G_copy.remove_edges_from(G_copy.out_edges(z))
RemoveOutEdges(H, z) == [H EXCEPT !.edge = {e \in @ : e[1] \notin z}]

\* The blocks of the union-find: b joins a's block when an edge, x or y
\* links them.
Linked(H, x, y, a, b) ==
    \/ <<a, b>> \in H.edge
    \/ <<b, a>> \in H.edge
    \/ a \in x /\ b \in x
    \/ a \in y /\ b \in y

RECURSIVE Block(_, _, _, _)
Block(H, x, y, S) ==
    LET T == S \cup {b \in H.node \cup x \cup y :
                        \E a \in S : Linked(H, x, y, a, b)}
    IN IF T = S THEN S ELSE Block(H, x, y, T)

d_separated(H, x, y, z) ==
    LET pruned == PruneLeaves(H, x \cup y \cup z)
        cut == RemoveOutEdges(pruned, z)
    IN IF x # {} /\ y # {}
       THEN LET x0 == CHOOSE a \in x : TRUE
            IN Block(cut, x, y, {x0}) \cap y = {}
       ELSE TRUE

\* ---------------------------------------------------------------- listMAdj
\* ComputeD_pcp that collects the vertices of the paths without their
\* descendants.
ComputeD_pcpPathVertices(G, ps) ==
    UNION {UNION {{ps[p][e][1], ps[p][e][2]} : e \in 1..Len(ps[p])}
           : p \in 1..Len(ps)}

\* The union of findDescendants over every vertex of every edge of every path.
ComputeD_pcp(G, ps) ==
    UNION {UNION {UNION {Range(findDescendants(G, ps[p][e][v])) : v \in 1..2}
                  : e \in 1..Len(ps[p])}
           : p \in 1..Len(ps)}

\* bin(i)[2:]: the binary digits of i, most significant first ("0" for 0).
RECURSIVE bin(_)
bin(n) == IF n < 2 THEN <<n>> ELSE Append(bin(n \div 2), n % 2)

\* str.zfill(width): zeros on the left up to width.
RECURSIVE zfill(_, _)
zfill(s, width) == IF Len(s) >= width THEN s ELSE zfill(<<0>> \o s, width)

binString(n, varNum) == zfill(bin(n), varNum)

\* BuildZ whose loop stops one entry early.
RECURSIVE BuildZSkipLast(_, _, _)
BuildZSkipLast(Vl, bs, j) ==
    IF j >= Len(Vl) THEN <<>>
    ELSE (IF bs[j] = 1 THEN <<Vl[j][1]>> ELSE <<>>) \o BuildZSkipLast(Vl, bs, j + 1)

\* The loop over j that builds Z.
RECURSIVE BuildZ(_, _, _)
BuildZ(Vl, bs, j) ==
    IF j > Len(Vl) THEN <<>>
    ELSE (IF bs[j] = 1 THEN <<Vl[j][1]>> ELSE <<>>) \o BuildZ(Vl, bs, j + 1)

\* BuildR_W that forgets the indicators of the selected variables.
RECURSIVE BuildR_WOnlyXY(_, _, _, _, _)
BuildR_WOnlyXY(Vl, bs, x, y, j) ==
    IF j > Len(Vl) THEN <<>>
    ELSE (IF (Vl[j][1] = x \/ Vl[j][1] = y) /\ Vl[j][2] # None
          THEN <<Vl[j][2]>> ELSE <<>>) \o BuildR_WOnlyXY(Vl, bs, x, y, j + 1)

\* BuildR_W that adds an indicator only under a set bit.
RECURSIVE BuildR_WSelectedOnly(_, _, _, _, _)
BuildR_WSelectedOnly(Vl, bs, x, y, j) ==
    IF j > Len(Vl) THEN <<>>
    ELSE (IF bs[j] = 1 /\ Vl[j][2] # None THEN <<Vl[j][2]>> ELSE <<>>)
         \o BuildR_WSelectedOnly(Vl, bs, x, y, j + 1)

\* The loop over j that builds R_W.
RECURSIVE BuildR_W(_, _, _, _, _)
BuildR_W(Vl, bs, x, y, j) ==
    IF j > Len(Vl) THEN <<>>
    ELSE LET sel == IF bs[j] = 1 /\ Vl[j][1] # x /\ Vl[j][1] # y /\ Vl[j][2] # None
                    THEN <<Vl[j][2]>> ELSE <<>>
             xy == IF (Vl[j][1] = x \/ Vl[j][1] = y) /\ Vl[j][2] # None
                   THEN <<Vl[j][2]>> ELSE <<>>
         IN sel \o xy \o BuildR_W(Vl, bs, x, y, j + 1)

\* Condition 1 that looks at the first element of Z only.
Condition1FirstOnly(Zl, Dpcp) == Len(Zl) = 0 \/ Zl[1] \notin Dpcp

\* Condition 1: no element of Z is in D_pcp.
Condition1(Zl, Dpcp) == \A k \in 1..Len(Zl) : Zl[k] \notin Dpcp

\* Condition 2 given R_W alone.
Condition2OnlyR_W(G, ps, x, y, Zl, RW) ==
    d_separated(createProperBackdoorGraph(G, ps), {y}, {x}, Range(RW))

\* Condition 2: Y d-separated from X given Z + R_W in the proper backdoor graph.
Condition2(G, ps, x, y, Zl, RW) ==
    d_separated(createProperBackdoorGraph(G, ps), {y}, {x}, Range(Zl \o RW))

\* Condition 3 left out.
Condition3Skipped(G, x, y, RW) == TRUE

\* Condition 3: Y d-separated from R_W given X in G without the edges into X.
Condition3(G, x, y, RW) ==
    d_separated(createGXBarAbove(G, x), {y}, Range(RW), {x})

\* Condition 4: X is no ancestor of R_W, or X d-separated from Y given
\* nothing in G without the edges out of X.
Condition4(G, x, y, RW) ==
    IF isAncestor(G, x, RW)
    THEN d_separated(createGXBarBelow(G, x), {x}, {y}, {})
    ELSE TRUE

\* The arguments <<x, y, z>> of the nx.d_separated calls one iteration of
\* the loop makes for Z and R_W, in order: that of condition 2 once
\* condition 1 holds, that of condition 3 once condition 2 holds, that of
\* condition 4 once condition 3 holds and X is an ancestor of R_W.
QueriesOf(G, ps, Dpcp, x, y, Zl, RW) ==
    IF ~Condition1(Zl, Dpcp) THEN <<>>
    ELSE <<<<{y}, {x}, Range(Zl \o RW)>>>> \o
         (IF ~Condition2(G, ps, x, y, Zl, RW) THEN <<>>
          ELSE <<<<{y}, Range(RW), {x}>>>> \o
               (IF Condition3(G, x, y, RW) /\ isAncestor(G, x, RW)
                THEN <<<<{x}, {y}, {}>>>> ELSE <<>>))

\* UpdateBestSet with the comparison turned round.
UpdateBestSetLonger(best, Zl) ==
    IF best = <<>> \/ Len(Zl) > Len(best[1]) THEN <<Zl>> ELSE best

\* bestSet after the test bestSet == None or len(Z) < len(bestSet).
UpdateBestSet(best, Zl) ==
    IF best = <<>> \/ Len(Zl) < Len(best[1]) THEN <<Zl>> ELSE best

\* Whether the loop body reaches validSets.append(Z) for Z and R_W.
Accepts(G, ps, Dpcp, x, y, Zl, RW) ==
    /\ Condition1(Zl, Dpcp)
    /\ Condition2(G, ps, x, y, Zl, RW)
    /\ Condition3(G, x, y, RW)
    /\ Condition4(G, x, y, RW)

\* ------------------------------------------------------------------ inputs
Nodes == 1..NumNodes

\* Every DAG on Nodes, up to the names of its nodes: the edges go from a
\* smaller to a larger node.
GeneratedGraphs ==
    {[node |-> Nodes, edge |-> E] :
        E \in SUBSET {e \in Nodes \X Nodes : e[1] < e[2]}}

\* V as the data model has it: names pairwise distinct and nodes of G; an
\* indicator is a node of G that is neither X, Y nor a name, and no two
\* variables share one.
WellFormedV(G, x, y, Vl) ==
    /\ \A k \in 1..Len(Vl) : Vl[k][1] \in G.node
    /\ \A k, l \in 1..Len(Vl) : k # l => Vl[k][1] # Vl[l][1]
    /\ \A k \in 1..Len(Vl) :
          Vl[k][2] # None =>
             /\ Vl[k][2] \in G.node \ {x, y}
             /\ \A l \in 1..Len(Vl) : Vl[l][1] # Vl[k][2]
             /\ \A l \in 1..Len(Vl) : l # k => Vl[l][2] # Vl[k][2]

\* The lists V of at most MaxV records that are well formed for every
\* graph on Nodes.
GeneratedV(x, y) ==
    UNION {{Vl \in [1..n -> Nodes \X (Nodes \cup {None})] :
               WellFormedV([node |-> Nodes, edge |-> {}], x, y, Vl)}
           : n \in 0..MaxV}


\* createTestGraph (scenario S1): A, M1, M2, Y, C1..C5 are 1..9.
TestGraph ==
    [node |-> 1..9,
     edge |-> {<<1, 2>>, <<1, 3>>, <<2, 4>>, <<3, 4>>, <<5, 7>>, <<5, 8>>,
               <<6, 8>>, <<6, 9>>, <<7, 1>>, <<8, 1>>, <<8, 2>>, <<8, 4>>,
               <<9, 4>>, <<2, 3>>}]

InputS1 == [G |-> TestGraph, X |-> 1, Y |-> 4, V |-> <<>>]

\* createTestGraph1 (scenario S2): U, V, A, W, X, T, C, B, Y, Z are 1..10.
TestGraph1 ==
    [node |-> 1..10,
     edge |-> {<<1, 4>>, <<1, 3>>, <<2, 4>>, <<2, 5>>, <<2, 6>>, <<3, 7>>,
               <<3, 8>>, <<3, 9>>, <<4, 8>>, <<4, 9>>, <<5, 9>>, <<6, 10>>,
               <<8, 9>>}]

InputS2 == [G |-> TestGraph1, X |-> 1, Y |-> 9, V |-> <<>>]

\* Scenario S3: X, Y, Z1, Z2, R_Z1, R_Z2 are 1..6.
GraphS3 ==
    [node |-> 1..6,
     edge |-> {<<4, 6>>, <<4, 1>>, <<3, 1>>, <<3, 2>>, <<1, 2>>, <<3, 5>>}]

InputS3 ==
    [G |-> GraphS3, X |-> 1, Y |-> 2,
     V |-> <<<<1, None>>, <<2, None>>, <<3, 5>>, <<4, 6>>>>]

\* createTestGraph2: X, Y, Z1, Z2, R_Z1, R_Z2 are 1..6 and Z is 7.
TestGraph2 ==
    [node |-> 1..7,
     edge |-> {<<7, 5>>, <<4, 6>>, <<4, 1>>, <<3, 1>>, <<3, 2>>, <<1, 2>>}]

InputTestGraph2 ==
    [G |-> TestGraph2, X |-> 1, Y |-> 2,
     V |-> <<<<1, None>>, <<2, None>>, <<3, 5>>, <<4, 6>>>>]

\* createTestGraph3 (scenario S4): X, Y, Z1, Z2, R_Z1 are 1..5.
TestGraph3 ==
    [node |-> 1..5,
     edge |-> {<<1, 2>>, <<3, 1>>, <<3, 2>>, <<1, 4>>, <<2, 4>>, <<4, 5>>}]

InputS4 ==
    [G |-> TestGraph3, X |-> 1, Y |-> 2,
     V |-> <<<<1, None>>, <<2, None>>, <<3, 5>>, <<4, None>>>>]

\* createTestGraph4 (scenario S5): X, Y, Z1, Z2, Z3, R_Y are 1..6.
TestGraph4 ==
    [node |-> 1..6,
     edge |-> {<<1, 2>>, <<3, 1>>, <<3, 2>>, <<4, 3>>, <<4, 5>>, <<5, 2>>,
               <<5, 6>>}]

InputS5 ==
    [G |-> TestGraph4, X |-> 1, Y |-> 2,
     V |-> <<<<1, None>>, <<2, 6>>, <<3, None>>, <<4, None>>, <<5, None>>>>]

\* createAIDSGraphV2: Age, Partners, Income, Drug, Condom, AIDS are 1..6 and
\* R_Partners, R_Drug, R_Condom are 7..9; testAIDSGraph asks for the effect
\* of Condom on AIDS.
AIDSGraphV2 ==
    [node |-> 1..9,
     edge |-> {<<1, 2>>, <<1, 3>>, <<1, 4>>, <<1, 5>>, <<2, 6>>, <<3, 6>>,
               <<3, 4>>, <<3, 5>>, <<4, 6>>, <<4, 5>>, <<5, 6>>}]

InputAIDSGraphV2 ==
    [G |-> AIDSGraphV2, X |-> 5, Y |-> 6,
     V |-> <<<<1, None>>, <<2, 7>>, <<3, None>>, <<4, 8>>, <<5, 9>>,
             <<6, None>>>>]

\* The graphs the source and the scenarios test listMAdj on.
TestInputs ==
    {InputS1, InputS2, InputS3, InputTestGraph2, InputS4, InputS5,
     InputAIDSGraphV2}

ScenarioInputs == {InputS1, InputS2, InputS3}

\* ------------------------------------------------------------------- state
VARIABLES
    G, X, Y, V,          \* the arguments of listMAdj
    pc,                  \* where the program is
    stk, pathSoFar, paths,   \* the locals of findProperCausalPath
    properCausalPaths,   \* the pathEdges it returned
    D_pcp,
    i,                   \* the counter of the subset loop
    Z, R_W,              \* the candidate of the last iteration
    G_pbd,               \* the last proper backdoor graph built
    validSets, bestSet,
    rejected,            \* how many iterations ended in a continue
    call, ret,           \* a helper called on its own, and what it returned
    dsA, dsB, dsZ,       \* the arguments of a d-separation query
    worklist, visited,   \* the (node, arrival direction) pairs of the query
    separated            \* its answer

\* The locals of listMAdj and findProperCausalPath.
listVars == <<X, Y, V, stk, pathSoFar, paths, properCausalPaths, D_pcp, i,
              Z, R_W, G_pbd, validSets, bestSet, rejected>>

helperVars == <<call, ret>>

queryVars == <<dsA, dsB, dsZ, worklist, visited, separated>>

vars == <<G, pc, listVars, helperVars, queryVars>>

varNum == Len(V)

\* A graph variable that holds no graph yet.
NoGraph == [node |-> {}, edge |-> {}]

\* listMAdj is entered and calls findProperCausalPath(G, X, Y), whose stack
\* holds (X, None).
InitWith(in) ==
    /\ G = in.G /\ X = in.X /\ Y = in.Y /\ V = in.V
    /\ pc = "findProperCausalPath"
    /\ stk = <<<<in.X, None>>>>
    /\ pathSoFar = <<>>
    /\ paths = <<>>
    /\ properCausalPaths = <<>>
    /\ D_pcp = {}
    /\ i = 0
    /\ Z = <<>> /\ R_W = <<>>
    /\ G_pbd = NoGraph
    /\ validSets = <<>>
    /\ bestSet = <<>>
    /\ rejected = 0

\* No helper is called on its own.
NoCall == call = <<>> /\ ret = <<>>

\* No d-separation query is run on its own.
NoQuery ==
    /\ dsA = {} /\ dsB = {} /\ dsZ = {}
    /\ worklist = {} /\ visited = {}
    /\ separated = TRUE

\* The arguments are a generated graph, two different nodes of it and a
\* generated V, or those of a scenario or of testAIDSGraph.
Init ==
    /\ \/ \E xy \in {p \in Nodes \X Nodes : p[1] # p[2]} :
          \E Vl \in GeneratedV(xy[1], xy[2]) :
          \E g \in GeneratedGraphs :
              InitWith([G |-> g, X |-> xy[1], Y |-> xy[2], V |-> Vl])
       \/ \E in \in ScenarioInputs \cup {InputAIDSGraphV2} : InitWith(in)
    /\ NoCall /\ NoQuery

\* One iteration of the while loop of findProperCausalPath.
DFSStep ==
    /\ pc = "findProperCausalPath"
    /\ Len(stk) > 0
    /\ LET curVertex == Last(stk)
           path == Append(Truncate(pathSoFar, curVertex[2]), curVertex[1])
       IN /\ Len(path) <= MaxDepth
          /\ pathSoFar' = path
          /\ paths' = IF curVertex[1] = Y THEN Append(paths, path) ELSE paths
          /\ stk' = Front(stk) \o PushChildren(G, curVertex[1])
    /\ UNCHANGED <<G, X, Y, V, pc, properCausalPaths, D_pcp, i, Z, R_W, G_pbd,
                   validSets, bestSet, rejected>>
    /\ UNCHANGED <<helperVars, queryVars>>

\* The stack is empty: findProperCausalPath converts paths and returns.
DFSReturn ==
    /\ pc = "findProperCausalPath"
    /\ Len(stk) = 0
    /\ properCausalPaths' = ConvertPaths(paths)
    /\ pc' = "D_pcp"
    /\ UNCHANGED <<G, X, Y, V, stk, pathSoFar, paths, D_pcp, i, Z, R_W, G_pbd,
                   validSets, bestSet, rejected>>
    /\ UNCHANGED <<helperVars, queryVars>>

\* The loops that fill D_pcp, and the set-up of the subset loop.
BuildD_pcp ==
    /\ pc = "D_pcp"
    /\ D_pcp' = ComputeD_pcp(G, properCausalPaths)
    /\ validSets' = <<>>
    /\ bestSet' = <<>>
    /\ i' = 0
    /\ pc' = "subsets"
    /\ UNCHANGED <<G, X, Y, V, stk, pathSoFar, paths, properCausalPaths, Z, R_W,
                   G_pbd, rejected>>
    /\ UNCHANGED <<helperVars, queryVars>>

\* One iteration of the loop over i: build Z and R_W, test the conditions.
Candidate ==
    /\ pc = "subsets"
    /\ i < Pow2(varNum)
    /\ LET bs == binString(i, varNum)
           Zl == BuildZ(V, bs, 1)
           RW == BuildR_W(V, bs, X, Y, 1)
       IN /\ ~(Condition1(Zl, D_pcp) /\ RaisesIndexError(properCausalPaths))
          /\ Z' = Zl
          /\ R_W' = RW
          /\ G_pbd' = IF Condition1(Zl, D_pcp)
                      THEN createProperBackdoorGraph(G, properCausalPaths)
                      ELSE G_pbd
          /\ IF Accepts(G, properCausalPaths, D_pcp, X, Y, Zl, RW)
             THEN /\ bestSet' = UpdateBestSet(bestSet, Zl)
                  /\ validSets' = Append(validSets, Zl)
                  /\ UNCHANGED rejected
             ELSE /\ rejected' = rejected + 1
                  /\ UNCHANGED <<validSets, bestSet>>
    /\ i' = i + 1
    /\ UNCHANGED <<G, X, Y, V, pc, stk, pathSoFar, paths, properCausalPaths,
                   D_pcp>>
    /\ UNCHANGED <<helperVars, queryVars>>

\* An iteration whose candidate passes condition 1 and whose call of
\* createProperBackdoorGraph raises IndexError: listMAdj ends with it.
CandidateRaises ==
    /\ pc = "subsets"
    /\ i < Pow2(varNum)
    /\ LET bs == binString(i, varNum)
           Zl == BuildZ(V, bs, 1)
           RW == BuildR_W(V, bs, X, Y, 1)
       IN /\ Condition1(Zl, D_pcp)
          /\ RaisesIndexError(properCausalPaths)
          /\ Z' = Zl
          /\ R_W' = RW
    /\ pc' = "IndexError"
    /\ UNCHANGED <<G, X, Y, V, stk, pathSoFar, paths, properCausalPaths, D_pcp,
                   i, G_pbd, validSets, bestSet, rejected>>
    /\ UNCHANGED <<helperVars, queryVars>>

\* The loop is over: listMAdj returns (validSets, bestSet).
Return ==
    /\ pc = "subsets"
    /\ i = Pow2(varNum)
    /\ pc' = "done"
    /\ UNCHANGED <<G, X, Y, V, stk, pathSoFar, paths, properCausalPaths, D_pcp,
                   i, Z, R_W, G_pbd, validSets, bestSet, rejected>>
    /\ UNCHANGED <<helperVars, queryVars>>

Next == DFSStep \/ DFSReturn \/ BuildD_pcp \/ Candidate \/ Return

Spec == Init /\ [][Next]_vars

\* listMAdj called with any two nodes of a generated graph, equal or not.
InitAnyXY ==
    /\ \E xy \in Nodes \X Nodes :
       \E Vl \in GeneratedV(xy[1], xy[2]) :
       \E g \in GeneratedGraphs :
           InitWith([G |-> g, X |-> xy[1], Y |-> xy[2], V |-> Vl])
    /\ NoCall /\ NoQuery

NextAnyXY ==
    DFSStep \/ DFSReturn \/ BuildD_pcp \/ Candidate \/ CandidateRaises \/ Return

SpecAnyXY == InitAnyXY /\ [][NextAnyXY]_vars

\* listMAdj on the test graphs alone.
InitTests ==
    /\ \E in \in TestInputs : InitWith(in)
    /\ NoCall /\ NoQuery

SpecTests == InitTests /\ [][Next]_vars

\* --------------------------------------------- the helpers called on their own
\* The lists of at most MaxList nodes of H.
NodeLists(H) == UNION {[1..n -> H.node] : n \in 0..MaxList}

\* No listMAdj call is under way.
NoListMAdj ==
    /\ X = None /\ Y = None /\ V = <<>>
    /\ stk = <<>> /\ pathSoFar = <<>> /\ paths = <<>>
    /\ properCausalPaths = <<>>
    /\ D_pcp = {}
    /\ i = 0
    /\ Z = <<>> /\ R_W = <<>>
    /\ G_pbd = NoGraph
    /\ validSets = <<>>
    /\ bestSet = <<>>
    /\ rejected = 0

InitHelpers ==
    /\ G \in GeneratedGraphs
    /\ pc = "helpers"
    /\ NoListMAdj /\ NoCall /\ NoQuery

\* isAncestor(G, x, Vl) is called and returns.
CallIsAncestor ==
    /\ pc = "helpers"
    /\ \E x \in G.node, Vl \in NodeLists(G) :
          /\ call' = <<"isAncestor", x, Vl>>
          /\ ret' = isAncestor(G, x, Vl)
    /\ pc' = "returned"
    /\ UNCHANGED <<G, listVars, queryVars>>

\* findDescendants(G, source) is called and returns.
CallFindDescendants ==
    /\ pc = "helpers"
    /\ \E source \in G.node :
          /\ call' = <<"findDescendants", source>>
          /\ ret' = findDescendants(G, source)
    /\ pc' = "returned"
    /\ UNCHANGED <<G, listVars, queryVars>>

NextHelpers == CallIsAncestor \/ CallFindDescendants

SpecHelpers == InitHelpers /\ [][NextHelpers]_vars

\* ------------------------------------------ the transforms called on their own
\* The caller's graph G is the object 1 of the heap <<G>>; after the call G
\* is what the object 1 holds then.  call keeps the graph as it was handed
\* over, ret the heap and the reference the transform returned, and for
\* createProperBackdoorGraph whether a remove_edge call raised.
InitTransforms ==
    /\ G \in GeneratedGraphs \cup {TestGraph, TestGraph1}
    /\ pc = "transforms"
    /\ NoListMAdj /\ NoCall /\ NoQuery

\* createProperBackdoorGraph(G, findProperCausalPath(G, x, y)) returns.
CallCreateProperBackdoorGraph ==
    /\ pc = "transforms"
    /\ \E x, y \in G.node :
          /\ x # y
          /\ LET ps == findProperCausalPath(G, x, y)
                 r == createProperBackdoorGraphIn(<<G>>, 1, ps)
             IN /\ call' = <<"createProperBackdoorGraph", G, ps, x, y>>
                /\ ret' = [heap |-> r.heap, ref |-> r.ref,
                           raised |-> RemoveFirstEdgesRaises(G, ps, 1)]
                /\ G' = r.heap[1]
    /\ pc' = "returned"
    /\ UNCHANGED <<listVars, queryVars>>

\* createGXBarAbove(G, x) returns.
CallCreateGXBarAbove ==
    /\ pc = "transforms"
    /\ \E x \in G.node :
          LET r == createGXBarAboveIn(<<G>>, 1, x)
          IN /\ call' = <<"createGXBarAbove", G, x>>
             /\ ret' = r
             /\ G' = r.heap[1]
    /\ pc' = "returned"
    /\ UNCHANGED <<listVars, queryVars>>

\* createGXBarBelow(G, x) returns.
CallCreateGXBarBelow ==
    /\ pc = "transforms"
    /\ \E x \in G.node :
          LET r == createGXBarBelowIn(<<G>>, 1, x)
          IN /\ call' = <<"createGXBarBelow", G, x>>
             /\ ret' = r
             /\ G' = r.heap[1]
    /\ pc' = "returned"
    /\ UNCHANGED <<listVars, queryVars>>

\* listMAdj(G, x, y, V) has built the three graphs of an iteration.
CallListMAdjGraphs ==
    /\ pc = "transforms"
    /\ \E x, y \in G.node :
          /\ x # y
          /\ LET ps == findProperCausalPath(G, x, y)
                 r == listMAdjGraphsIn(<<G>>, 1, ps, x)
             IN /\ call' = <<"listMAdj", G, ps, x, y>>
                /\ ret' = r
                /\ G' = r.heap[1]
    /\ pc' = "returned"
    /\ UNCHANGED <<listVars, queryVars>>

NextTransforms ==
    \/ CallCreateProperBackdoorGraph
    \/ CallCreateGXBarAbove
    \/ CallCreateGXBarBelow
    \/ CallListMAdjGraphs

SpecTransforms == InitTransforms /\ [][NextTransforms]_vars

\* ------------------------------------- the d-separation procedure of the design
\* Step 1: S and every node with a directed path into S.
RECURSIVE AncestorClosure(_, _)
AncestorClosure(H, S) ==
    LET T == S \cup {e[1] : e \in {d \in H.edge : d[2] \in S}}
    IN IF T = S THEN S ELSE AncestorClosure(H, T)

\* Step 3: where the walk may go on from node n reached with direction d.
\* "fromChild": n was entered against an edge (or is a start node), so n is
\* no collider and is passed iff it is not in Zs, to parents and children.
\* "fromParent": n was entered along an edge; on to a child n is no
\* collider, on to a parent n is a collider, passed iff n is in Anc(Zs).
Moves(H, Zs, n, d) ==
    LET parents == {<<e[1], "fromChild">> : e \in {c \in H.edge : c[2] = n}}
        children == {<<e[2], "fromParent">> : e \in {c \in H.edge : c[1] = n}}
    IN IF d = "fromChild"
       THEN IF n \notin Zs THEN parents \cup children ELSE {}
       ELSE (IF n \notin Zs THEN children ELSE {})
            \cup (IF n \in AncestorClosure(H, Zs) THEN parents ELSE {})

\* Step 2: the worklist holds every node of dsA, free to leave by any edge.
InitQuery ==
    /\ G \in GeneratedGraphs
    /\ pc = "query"
    /\ \E A \in SUBSET G.node \ {{}} :
       \E B \in SUBSET (G.node \ A) \ {{}} :
       \E C \in SUBSET (G.node \ (A \cup B)) :
          /\ dsA = A /\ dsB = B /\ dsZ = C
          /\ worklist = {<<a, "fromChild">> : a \in A}
    /\ visited = {}
    /\ separated = TRUE
    /\ NoListMAdj /\ NoCall

\* Steps 3 and 4: one pair leaves the worklist; a pair seen before is
\* dropped, a node of dsB ends the query with the answer false, any other
\* pair is expanded.
Expand ==
    /\ pc = "query"
    /\ \E item \in worklist :
          IF item \in visited
          THEN /\ worklist' = worklist \ {item}
               /\ UNCHANGED <<visited, separated, pc>>
          ELSE IF item[1] \in dsB
          THEN /\ separated' = FALSE
               /\ pc' = "answered"
               /\ UNCHANGED <<worklist, visited>>
          ELSE /\ visited' = visited \cup {item}
               /\ worklist' = (worklist \ {item}) \cup Moves(G, dsZ, item[1], item[2])
               /\ UNCHANGED <<separated, pc>>
    /\ UNCHANGED <<G, dsA, dsB, dsZ, listVars, helperVars>>

\* Step 4: the worklist is empty and no node of dsB was reached.
Answer ==
    /\ pc = "query"
    /\ worklist = {}
    /\ separated' = TRUE
    /\ pc' = "answered"
    /\ UNCHANGED <<G, dsA, dsB, dsZ, worklist, visited, listVars, helperVars>>

NextQuery == Expand \/ Answer

SpecQuery == InitQuery /\ [][NextQuery]_vars

\* ------------------------------------------------- definitions of the claims
\* The nodes a directed walk of one or more edges leads to from the set S.
RECURSIVE ReachFwd(_, _)
ReachFwd(H, S) ==
    LET T == S \cup {e[2] : e \in {d \in H.edge : d[1] \in S}}
    IN IF T = S THEN S ELSE ReachFwd(H, T)

\* v and everything reachable from v along edges.
Desc(H, v) == ReachFwd(H, {v})

\* v and everything v is reachable from.
Anc(H, v) == {u \in H.node : v \in Desc(H, u)}

\* Every simple directed path of H that extends the vertex list p and ends at y.
RECURSIVE PathsExtending(_, _, _)
PathsExtending(H, p, y) ==
    (IF Last(p) = y THEN {p} ELSE {})
    \cup UNION {PathsExtending(H, Append(p, c), y) :
                  c \in {e[2] : e \in {d \in H.edge : d[1] = Last(p)}} \ Range(p)}

\* The simple directed paths of H from x to y, as vertex lists.
DirectedPaths(H, x, y) == PathsExtending(H, <<x>>, y)

\* The edges a vertex list runs along.
EdgeList(p) == [k \in 1..(Len(p) - 1) |-> <<p[k], p[k + 1]>>]

NoRepeats(s) == \A k, l \in 1..Len(s) : k # l => s[k] # s[l]

Returned == pc \in {"D_pcp", "subsets", "done"}

\* ---------------------------------------------------------------- claims
\* C4: findProperCausalPath returns exactly the simple directed paths from X
\* to Y, each once: every returned edge list runs along such a path, every
\* such path is returned, and none twice; createTestGraph gives 3 paths
\* from A to Y and createTestGraph1 gives 4 from U to Y.
C4_ExactPaths ==
    Returned =>
        /\ Range(properCausalPaths) = {EdgeList(p) : p \in DirectedPaths(G, X, Y)}
        /\ Len(properCausalPaths) = Cardinality(DirectedPaths(G, X, Y))
        /\ NoRepeats(properCausalPaths)
        /\ (G = TestGraph /\ X = 1 /\ Y = 4 => Len(properCausalPaths) = 3)
        /\ (G = TestGraph1 /\ X = 1 /\ Y = 9 => Len(properCausalPaths) = 4)

\* findProperCausalPath has returned the four paths of createTestGraph1.
C4_Witness ==
    /\ pc = "D_pcp"
    /\ G = TestGraph1
    /\ Range(properCausalPaths) =
          {<<<<1, 4>>, <<4, 9>>>>, <<<<1, 4>>, <<4, 8>>, <<8, 9>>>>,
           <<<<1, 3>>, <<3, 9>>>>, <<<<1, 3>>, <<3, 8>>, <<8, 9>>>>}

\* C5: the proper backdoor graph built from the paths findProperCausalPath
\* returned has no directed path from X to Y.
C5_NoCausalPathLeft ==
    /\ Returned =>
          DirectedPaths(createProperBackdoorGraph(G, properCausalPaths), X, Y) = {}
    /\ G_pbd # NoGraph => DirectedPaths(G_pbd, X, Y) = {}

\* A proper backdoor graph was built from several paths, two of which share
\* their first edge while a third starts with another edge.
C5_Witness ==
    /\ G_pbd # NoGraph
    /\ \E k, l \in 1..Len(properCausalPaths) :
          k # l /\ properCausalPaths[k][1] = properCausalPaths[l][1]
    /\ \E k \in 1..Len(properCausalPaths) :
          properCausalPaths[k][1] # properCausalPaths[1][1]

\* ---- the M-adjustment criterion, stated on sets and paths
Names(Vl) == {Vl[k][1] : k \in 1..Len(Vl)}

\* The nodes on some proper causal path from x to y.
OnCausalPath(H, x, y) == UNION {Range(p) : p \in DirectedPaths(H, x, y)}

\* The descendants of the nodes on the proper causal paths.
DpcpOf(H, x, y) == UNION {Desc(H, v) : v \in OnCausalPath(H, x, y)}

\* The missingness indicators of the members of Zs, x and y that have one.
IndicatorsOf(Vl, x, y, Zs) ==
    {Vl[k][2] : k \in {j \in 1..Len(Vl) :
                          Vl[j][1] \in Zs \cup {x, y} /\ Vl[j][2] # None}}

\* H without the first edge of every proper causal path from x to y.
BackdoorGraphOf(H, x, y) ==
    [H EXCEPT !.edge = {e \in @ : ~(e[1] = x /\ y \in Desc(H, e[2]))}]

WithoutEdgesInto(H, x) == [H EXCEPT !.edge = {e \in @ : e[2] # x}]

WithoutEdgesOutOf(H, x) == [H EXCEPT !.edge = {e \in @ : e[1] # x}]

Adjacent(H, a, b) == <<a, b>> \in H.edge \/ <<b, a>> \in H.edge

\* Every simple path of H, edges taken in either direction, that extends
\* the vertex list p and ends at b.
RECURSIVE TrailsExtending(_, _, _)
TrailsExtending(H, p, b) ==
    IF Last(p) = b THEN {p}
    ELSE UNION {TrailsExtending(H, Append(p, c), b) :
                  c \in {n \in H.node : Adjacent(H, Last(p), n)} \ Range(p)}

\* The path p is blocked by C: a non-collider of p is in C, or a collider
\* of p is not in C and has no descendant in C.
BlockedBy(H, p, C) ==
    \E k \in 2..(Len(p) - 1) :
        LET collider == <<p[k - 1], p[k]>> \in H.edge /\ <<p[k + 1], p[k]>> \in H.edge
        IN \/ ~collider /\ p[k] \in C
           \/ collider /\ Desc(H, p[k]) \cap C = {}

\* A and B are d-separated by C in H: every path between them is blocked.
DSeparatedByPaths(H, A, B, C) ==
    \A a \in A, b \in B : \A p \in TrailsExtending(H, <<a>>, b) : BlockedBy(H, p, C)

\* The four conditions of the criterion for the set Zs.
MAdjustment(H, x, y, Vl, Zs) ==
    LET RW == IndicatorsOf(Vl, x, y, Zs)
    IN /\ Zs \cap DpcpOf(H, x, y) = {}
       /\ DSeparatedByPaths(BackdoorGraphOf(H, x, y), {y}, {x}, Zs \cup RW)
       /\ DSeparatedByPaths(WithoutEdgesInto(H, x), {y}, RW, {x})
       /\ (\E r \in RW : x \in Anc(H, r)) =>
              DSeparatedByPaths(WithoutEdgesOutOf(H, x), {x}, {y}, {})

ValidSetsAsSets == {Range(validSets[k]) : k \in 1..Len(validSets)}

\* C1: listMAdj returns the subsets of V's names that satisfy the four
\* conditions, all of them and no other.
C1_ExactlyTheValidSets ==
    pc = "done" =>
        ValidSetsAsSets = {Zs \in SUBSET Names(V) : MAdjustment(G, X, Y, V, Zs)}

\* The same when no d-separation query can mention X or Y in its
\* conditioning set: a proper causal path exists or V names neither.
C1_OnDisjointQueries ==
    pc = "done" /\ (properCausalPaths # <<>> \/ Names(V) \cap {X, Y} = {}) =>
        ValidSetsAsSets = {Zs \in SUBSET Names(V) : MAdjustment(G, X, Y, V, Zs)}

\* The least length of a list of the non-empty sequence s.
MinLen(s) == CHOOSE n \in {Len(s[k]) : k \in 1..Len(s)} :
                \A k \in 1..Len(s) : n <= Len(s[k])

\* C2: when listMAdj returns, bestSet is None exactly when validSets is
\* empty; otherwise it is one of validSets and none of them is shorter.
C2_BestSetIsAMinimum ==
    pc = "done" =>
        /\ bestSet = <<>> <=> validSets = <<>>
        /\ bestSet # <<>> =>
              /\ bestSet[1] \in Range(validSets)
              /\ Len(bestSet[1]) = MinLen(validSets)

\* listMAdj returned valid sets of different sizes.
C2_Witness ==
    /\ pc = "done"
    /\ \E k, l \in 1..Len(validSets) : Len(validSets[k]) < Len(validSets[l])
    /\ bestSet # <<>>

\* C3: every returned set is made of names of V and holds no descendant of
\* a node on a proper causal path from X to Y.
C3_ValidSetsAvoidD_pcp ==
    \A k \in 1..Len(validSets) :
        /\ Range(validSets[k]) \subseteq Names(V)
        /\ Range(validSets[k]) \cap DpcpOf(G, X, Y) = {}

\* listMAdj returned a non-empty set although V names a node of D_pcp other
\* than X and Y.
C3_Witness ==
    /\ pc = "done"
    /\ \E k \in 1..Len(validSets) : validSets[k] # <<>>
    /\ Names(V) \cap (DpcpOf(G, X, Y) \ {X, Y}) # {}

\* C10 as claimed: on scenario S3 validSets is non-empty and includes {Z1}.
C10_S3HasZ1 ==
    pc = "done" /\ G = GraphS3 /\ X = 1 /\ Y = 2 /\ V = InputS3.V =>
        /\ validSets # <<>>
        /\ \E k \in 1..Len(validSets) : Range(validSets[k]) = {3}

\* C10, amended: on scenario S3 listMAdj returns no valid set and bestSet
\* None; all sixteen candidates are rejected.
C10_S3HasNoValidSet ==
    pc = "done" /\ G = GraphS3 /\ X = 1 /\ Y = 2 /\ V = InputS3.V =>
        /\ validSets = <<>>
        /\ bestSet = <<>>
        /\ rejected = 16

\* listMAdj returned on scenario S3.
C10_Witness ==
    pc = "done" /\ G = GraphS3 /\ X = 1 /\ Y = 2 /\ V = InputS3.V /\ i = 16

\* The candidate Z the loop builds for the counter value a.
CandidateOf(a) == BuildZ(V, binString(a, varNum), 1)

Counters == 0..(Pow2(varNum) - 1)

\* The counter value whose candidate is Zl.
CounterOf(Zl) == CHOOSE a \in Counters : CandidateOf(a) = Zl

\* The candidates of the counter values a..(n - 1) that pass the four tests,
\* in counter order.
RECURSIVE AcceptedFrom(_, _)
AcceptedFrom(a, n) ==
    IF a >= n THEN <<>>
    ELSE (IF Accepts(G, properCausalPaths, D_pcp, X, Y, CandidateOf(a),
                     BuildR_W(V, binString(a, varNum), X, Y, 1))
          THEN <<CandidateOf(a)>> ELSE <<>>) \o AcceptedFrom(a + 1, n)

\* C7: the loop evaluates one candidate per counter value 0 .. 2^n - 1;
\* different counter values give different subsets of V and every subset is
\* given by one; accepted plus rejected candidates are 2^n at the end;
\* validSets holds the accepted candidates in counter order, none twice, and
\* with bestSet is determined by the input.
C7_EverySubsetOnce ==
    pc \in {"subsets", "done"} =>
        /\ i \in 0..Pow2(varNum)
        /\ Len(validSets) + rejected = i
        /\ pc = "done" => Len(validSets) + rejected = Pow2(varNum)
        /\ i > 0 => Z = CandidateOf(i - 1)
        /\ \A a, b \in Counters :
              a # b => Range(CandidateOf(a)) # Range(CandidateOf(b))
        /\ {Range(CandidateOf(a)) : a \in Counters} = SUBSET Names(V)
        /\ NoRepeats(validSets)
        /\ \A k, l \in 1..Len(validSets) :
              k < l => CounterOf(validSets[k]) < CounterOf(validSets[l])
        /\ validSets = AcceptedFrom(0, i)
        /\ bestSet = IF validSets = <<>> THEN <<>>
                     ELSE <<validSets[CHOOSE k \in 1..Len(validSets) :
                               /\ Len(validSets[k]) = MinLen(validSets)
                               /\ \A l \in 1..(k - 1) :
                                     Len(validSets[l]) > MinLen(validSets)]>>

\* listMAdj returned after four candidates, some accepted and some rejected.
C7_Witness ==
    /\ pc = "done"
    /\ varNum = 2
    /\ Len(validSets) >= 2
    /\ rejected >= 1

\* C8: isAncestor(G, x, V) is True exactly when x is a member of V or is
\* reachable backward from a member of V; one member suffices, and the
\* empty V gives False.
C8_IsAncestorOfSomeMember ==
    call # <<>> /\ call[1] = "isAncestor" =>
        /\ ret = (\E k \in 1..Len(call[3]) : call[2] \in Anc(G, call[3][k]))
        /\ call[3] = <<>> => ret = FALSE

\* isAncestor returned True for a list whose first member x is no ancestor
\* of and whose second member it is a strict ancestor of.
C8_Witness ==
    /\ call # <<>> /\ call[1] = "isAncestor"
    /\ Len(call[3]) = 2
    /\ call[2] \notin Anc(G, call[3][1])
    /\ call[2] \in Anc(G, call[3][2]) \ {call[3][2]}
    /\ ret = TRUE

\* C9: v is in findDescendants(G, u) exactly when isAncestor(G, u, [v]) is
\* True; findDescendants(G, u) holds u and exactly the nodes reachable from
\* u along edges.
C9_DescendantsMirrorAncestors ==
    call # <<>> /\ call[1] = "findDescendants" =>
        /\ \A v \in G.node : v \in Range(ret) <=> isAncestor(G, call[2], <<v>>)
        /\ call[2] \in Range(ret)
        /\ Range(ret) = Desc(G, call[2])

\* findDescendants returned a node two edges away and left a node out.
C9_Witness ==
    /\ call # <<>> /\ call[1] = "findDescendants"
    /\ \E v, w \in G.node :
          /\ <<call[2], v>> \in G.edge /\ <<v, w>> \in G.edge
          /\ w \in Range(ret)
    /\ Range(ret) # G.node

\* C6: on pairwise disjoint A, B and Z the worklist procedure answers true
\* exactly when every path between a node of A and a node of B is blocked
\* by Z, and the d-separation test the source calls gives the same answer.
C6_ProcedureDecidesBlocking ==
    pc = "answered" =>
        /\ separated = DSeparatedByPaths(G, dsA, dsB, dsZ)
        /\ d_separated(G, dsA, dsB, dsZ) = DSeparatedByPaths(G, dsA, dsB, dsZ)

\* The procedure answered true although A and B are joined by a path: one
\* path is blocked by a non-collider in Z and one by a collider outside
\* Anc(Z).
C6_Witness ==
    /\ pc = "answered"
    /\ separated = TRUE
    /\ \E a \in dsA, b \in dsB :
          \E p, q \in TrailsExtending(G, <<a>>, b) :
              /\ \E k \in 2..(Len(p) - 1) : p[k] \in dsZ
              /\ \E k \in 2..(Len(q) - 1) :
                    /\ <<q[k - 1], q[k]>> \in G.edge /\ <<q[k + 1], q[k]>> \in G.edge
                    /\ Desc(G, q[k]) \cap dsZ = {}

\* ------------------------------------------------------- the test graphs
\* C11: on createTestGraph2 as the source builds it, with the stray node Z
\* as the parent of R_Z1, listMAdj(G, 'X', 'Y', nodes) returns exactly two
\* valid sets, [Z1] and [Z1, Z2], and bestSet is [Z1].
C11_TestGraph2HasTwoValidSets ==
    pc = "done" /\ G = TestGraph2 =>
        /\ Len(validSets) = 2
        /\ validSets = <<<<3>>, <<3, 4>>>>
        /\ bestSet = <<<<3>>>>
        /\ rejected = 14

\* listMAdj returned on createTestGraph2 after its sixteen candidates.
C11_Witness ==
    pc = "done" /\ G = TestGraph2 /\ X = 1 /\ Y = 2 /\ i = 16 /\ validSets # <<>>

\* C12: on createTestGraph3 (S4) and createTestGraph4 (S5) listMAdj returns
\* an empty validSets and bestSet None: every candidate is rejected.
C12_S4AndS5HaveNoValidSet ==
    pc = "done" /\ G \in {TestGraph3, TestGraph4} =>
        /\ validSets = <<>>
        /\ bestSet = <<>>
        /\ rejected = Pow2(varNum)

\* listMAdj returned on createTestGraph4 after its thirty-two candidates.
C12_Witness ==
    pc = "done" /\ G = TestGraph4 /\ V = InputS5.V /\ i = 32

\* ------------------------------------------- missingness independent of all
\* Every indicator named in Vl is a node of H with no edge into or out of it.
IndicatorsIsolated(H, Vl) ==
    \A k \in 1..Len(Vl) :
        Vl[k][2] # None =>
            /\ Vl[k][2] \in H.node
            /\ \A e \in H.edge : e[1] # Vl[k][2] /\ e[2] # Vl[k][2]

\* The adjustment criterion without missingness for the set Zs.
OrdinaryAdjustment(H, x, y, Zs) ==
    /\ Zs \cap DpcpOf(H, x, y) = {}
    /\ DSeparatedByPaths(BackdoorGraphOf(H, x, y), {y}, {x}, Zs)

\* C13: when every indicator named in V is an isolated node of G, listMAdj
\* returns exactly the subsets of V's names that are disjoint from D_pcp and
\* d-separate Y from X in the proper backdoor graph.
C13_IsolatedIndicatorsGiveOrdinaryAdjustment ==
    pc = "done" /\ IndicatorsIsolated(G, V) =>
        ValidSetsAsSets =
            {Zs \in SUBSET Names(V) : OrdinaryAdjustment(G, X, Y, Zs)}

\* The same when no d-separation query can mention X or Y in its
\* conditioning set.
C13_OnDisjointQueries ==
    /\ pc = "done" /\ IndicatorsIsolated(G, V)
    /\ (properCausalPaths # <<>> \/ Names(V) \cap {X, Y} = {})
    => ValidSetsAsSets =
           {Zs \in SUBSET Names(V) : OrdinaryAdjustment(G, X, Y, Zs)}

\* ------------------------------------------------------------- X = Y
\* C14: when X = Y the call is rejected: findProperCausalPath(G, X, X)
\* returns no path list and listMAdj(G, X, X, V) returns no pair of sets.
C14_EqualXYRejected ==
    X = Y /\ X \in G.node => ~Returned

\* What the code does when X = Y: findProperCausalPath returns the one path
\* without edges, D_pcp stays empty, and the first candidate ends listMAdj
\* with IndexError before any set is accepted.
C14_EqualXYRaisesIndexError ==
    X = Y /\ X \in G.node =>
        /\ Returned => properCausalPaths = <<<<>>>>
        /\ pc # "done"
        /\ pc = "subsets" => i = 0 /\ D_pcp = {}
        /\ validSets = <<>>

\* ------------------------------------------------ the d-separation queries
\* The three arguments of a query share no node.
PairwiseDisjoint(q) ==
    q[1] \cap q[2] = {} /\ q[1] \cap q[3] = {} /\ q[2] \cap q[3] = {}

\* The queries of the iteration that built the candidate Z and R_W.
LastQueries == QueriesOf(G, properCausalPaths, D_pcp, X, Y, Z, R_W)

\* C15: every d-separation query listMAdj issues for a candidate names only
\* nodes of G and has pairwise disjoint arguments, so no condition ends in
\* an error.
C15_QueriesAreDisjoint ==
    pc \in {"subsets", "done"} /\ i > 0 =>
        \A k \in 1..Len(LastQueries) :
            /\ LastQueries[k][1] \cup LastQueries[k][2] \cup LastQueries[k][3]
                  \subseteq G.node
            /\ PairwiseDisjoint(LastQueries[k])

\* The same when a proper causal path exists or V names neither X nor Y.
C15_DisjointWithACausalPath ==
    /\ pc \in {"subsets", "done"} /\ i > 0
    /\ (properCausalPaths # <<>> \/ Names(V) \cap {X, Y} = {})
    => \A k \in 1..Len(LastQueries) :
           /\ LastQueries[k][1] \cup LastQueries[k][2] \cup LastQueries[k][3]
                 \subseteq G.node
           /\ PairwiseDisjoint(LastQueries[k])

\* ------------------------------------------------------ the input graph
\* A transform or listMAdj was called on its own and has returned.
TransformReturned ==
    pc = "returned" /\ call # <<>> /\
    call[1] \in {"createProperBackdoorGraph", "createGXBarAbove",
                 "createGXBarBelow", "listMAdj"}

\* C16: after createProperBackdoorGraph, createGXBarAbove, createGXBarBelow
\* or the graph building of listMAdj, G has the nodes and edges it had
\* before the call; every graph built is an object of its own, other than
\* G, with the nodes of G and edges of G.
C16_InputGraphNotMutated ==
    TransformReturned =>
        /\ G = call[2]
        /\ G.node = call[2].node /\ G.edge = call[2].edge
        /\ ret.ref # 1
        /\ Len(ret.heap) = IF call[1] = "listMAdj" THEN 4 ELSE 2
        /\ ret.ref = Len(ret.heap)
        /\ \A r \in 2..Len(ret.heap) :
              /\ ret.heap[r].node = G.node
              /\ ret.heap[r].edge \subseteq G.edge

\* listMAdj built three graphs that each lack an edge of G, and G kept all
\* its edges.
C16_Witness ==
    /\ TransformReturned
    /\ call[1] = "listMAdj"
    /\ \A r \in 2..4 : ret.heap[r].edge # G.edge
    /\ G = call[2]

\* ------------------------------------------------ no directed path X to Y
NoCausalPath == DirectedPaths(G, X, Y) = {}

\* C17 as claimed: when G has no directed path from X to Y there is no
\* proper causal path and every candidate satisfies condition 2.
C17_EverySubsetSatisfiesC2 ==
    pc \in {"subsets", "done"} /\ i > 0 /\ NoCausalPath =>
        /\ properCausalPaths = <<>>
        /\ Condition2(G, properCausalPaths, X, Y, Z, R_W)

\* C17, amended: when G has no directed path from X to Y there is no proper
\* causal path, D_pcp is empty, the proper backdoor graph is G, every
\* candidate reaches condition 2 and listMAdj returns after 2^n candidates;
\* condition 2 is not vacuous: for a candidate without X and Y it holds
\* exactly when every path between Y and X in G is blocked by Z and R_W, and
\* the empty candidate fails it when R_W is empty and an edge joins X and Y.
C17_NoPathCondition2IsDSeparationInG ==
    pc \in {"subsets", "done"} /\ NoCausalPath =>
        /\ properCausalPaths = <<>>
        /\ D_pcp = {}
        /\ createProperBackdoorGraph(G, properCausalPaths) = G
        /\ i > 0 => /\ Condition1(Z, D_pcp)
                    /\ G_pbd = G
        /\ i > 0 /\ Range(Z) \cap {X, Y} = {} =>
              Condition2(G, properCausalPaths, X, Y, Z, R_W)
                 = DSeparatedByPaths(G, {Y}, {X}, Range(Z) \cup Range(R_W))
        /\ i > 0 /\ Z = <<>> /\ R_W = <<>> /\ <<Y, X>> \in G.edge =>
              ~Condition2(G, properCausalPaths, X, Y, Z, R_W)
        /\ pc = "done" => Len(validSets) + rejected = Pow2(varNum)

\* With no directed path from X to Y, a candidate without X and Y was
\* rejected by condition 2 and another one was accepted.
C17_Witness ==
    /\ pc = "subsets" /\ i > 0 /\ NoCausalPath
    /\ Range(Z) \cap {X, Y} = {}
    /\ ~Condition2(G, properCausalPaths, X, Y, Z, R_W)
    /\ validSets # <<>>

\* ------------------------------------------------------ X and Y in V
\* C18: D_pcp contains X and Y, so a candidate that holds X or Y is rejected
\* by condition 1 before any d-separation query is made, and no set of
\* validSets holds X or Y.
C18_XAndYNeverAccepted ==
    pc \in {"subsets", "done"} =>
        /\ {X, Y} \subseteq D_pcp
        /\ i > 0 /\ Range(Z) \cap {X, Y} # {} =>
              ~Condition1(Z, D_pcp) /\ LastQueries = <<>>
        /\ \A k \in 1..Len(validSets) : Range(validSets[k]) \cap {X, Y} = {}

\* The same when findProperCausalPath returned at least one path.
C18_WithACausalPath ==
    pc \in {"subsets", "done"} /\ properCausalPaths # <<>> =>
        /\ {X, Y} \subseteq D_pcp
        /\ i > 0 /\ Range(Z) \cap {X, Y} # {} =>
              ~Condition1(Z, D_pcp) /\ LastQueries = <<>>
        /\ \A k \in 1..Len(validSets) : Range(validSets[k]) \cap {X, Y} = {}

\* ------------------------------------------------------------------ R_W
\* Whether the entry k of V is in the subset the counter value a stands for:
\* the bit of a for k, the first entry having the highest bit.
Selected(a, k) == (a \div Pow2(varNum - k)) % 2 = 1

\* C19: the R_W of a candidate holds, each once, the indicator of every
\* selected entry of V named neither X nor Y and the indicator of the
\* entries named X and Y, selected or not, as far as they have one; it is
\* the set of indicators of the members of Z, X and Y.
C19_R_WIsTheIndicatorSet ==
    pc \in {"subsets", "done"} /\ i > 0 =>
        /\ NoRepeats(R_W)
        /\ Range(R_W) =
              {V[k][2] : k \in {j \in 1..varNum :
                  /\ V[j][2] # None
                  /\ \/ Selected(i - 1, j) /\ V[j][1] \notin {X, Y}
                     \/ V[j][1] \in {X, Y}}}
        /\ Range(Z) = {V[k][1] : k \in {j \in 1..varNum : Selected(i - 1, j)}}
        /\ Range(R_W) = IndicatorsOf(V, X, Y, Range(Z))

\* A candidate whose R_W holds the indicator of the entry named X, which is
\* not selected, and the indicator of a selected entry, while another entry
\* with an indicator is left out.
C19_Witness ==
    /\ pc = "subsets" /\ i > 0
    /\ \E k \in 1..varNum :
          V[k][1] = X /\ V[k][2] # None /\ X \notin Range(Z) /\ V[k][2] \in Range(R_W)
    /\ \E k \in 1..varNum :
          V[k][1] \in Range(Z) /\ V[k][2] # None /\ V[k][2] \in Range(R_W)
    /\ \E k \in 1..varNum :
          V[k][1] \notin Range(Z) \cup {X, Y} /\ V[k][2] # None
             /\ V[k][2] \notin Range(R_W)

\* ------------------------------------------------ createProperBackdoorGraph
\* C20: createProperBackdoorGraph(G, P) returns a graph with the nodes of G
\* and the edges of G except the first edges of the paths of P, each of
\* which leaves X: an edge out of X whose sink has no directed path to Y is
\* kept, every edge that does not leave X is kept, and no removal raises
\* when several paths share their first edge.
C20_OnlyFirstEdgesRemoved ==
    pc = "returned" /\ call # <<>> /\ call[1] = "createProperBackdoorGraph" =>
        LET H == call[2]
            P == call[3]
            x == call[4]
            y == call[5]
            R == ret.heap[ret.ref]
            firstEdges == {P[k][1] : k \in 1..Len(P)}
        IN /\ R.node = H.node
           /\ R.edge = H.edge \ firstEdges
           /\ \A e \in firstEdges : e \in H.edge /\ e[1] = x
           /\ \A e \in H.edge : e[1] = x /\ y \notin Desc(H, e[2]) => e \in R.edge
           /\ \A e \in H.edge : e[1] # x => e \in R.edge
           /\ ret.raised = FALSE
           /\ R = createProperBackdoorGraph(H, P)

\* createProperBackdoorGraph returned for paths two of which share their
\* first edge, on a graph with an edge out of X that leads to no path to Y
\* and is kept.
C20_Witness ==
    /\ pc = "returned" /\ call # <<>> /\ call[1] = "createProperBackdoorGraph"
    /\ \E k, l \in 1..Len(call[3]) : k # l /\ call[3][k][1] = call[3][l][1]
    /\ \E e \in ret.heap[ret.ref].edge :
          e[1] = call[4] /\ call[5] \notin Desc(call[2], e[2])
    /\ ret.heap[ret.ref].edge # call[2].edge

\* ------------------------------------------- isAncestor and findDescendants
IsAncestorReturned == pc = "returned" /\ call # <<>> /\ call[1] = "isAncestor"

\* C21 as claimed: isAncestor(G, x, V) is True exactly when every member of
\* V is in findDescendants(G, x).
C21_TrueIffAllMembersDescend ==
    IsAncestorReturned =>
        ret = (Range(call[3]) \subseteq Range(findDescendants(G, call[2])))

\* C21, amended: isAncestor(G, x, V) is True exactly when some member of V
\* is in findDescendants(G, x), that is, is x or reachable forward from x;
\* this is x being in the ancestor closure of V.  For a V of one member
\* "some" and "every" agree; the empty V gives False.
C21_TrueIffSomeMemberDescends ==
    IsAncestorReturned =>
        /\ ret = (Range(call[3]) \cap Range(findDescendants(G, call[2])) # {})
        /\ ret = (\E k \in 1..Len(call[3]) : call[3][k] \in Desc(G, call[2]))
        /\ ret = (call[2] \in AncestorClosure(G, Range(call[3])))
        /\ Len(call[3]) = 1 =>
              ret = (Range(call[3]) \subseteq Range(findDescendants(G, call[2])))
        /\ call[3] = <<>> => ret = FALSE

\* isAncestor returned True for a list whose first member is reachable
\* forward from x and whose second member is not.
C21_Witness ==
    /\ IsAncestorReturned
    /\ Len(call[3]) = 2
    /\ call[3][1] \in Range(findDescendants(G, call[2])) \ {call[2]}
    /\ call[3][2] \notin Range(findDescendants(G, call[2]))
    /\ ret = TRUE

\* ------------------------------------------------------------------ D_pcp
\* C22: when findProperCausalPath returned at least one path, D_pcp is, as a
\* set, findDescendants(G, X), and no returned set holds a descendant of X,
\* on a directed path to Y or not; when it returned none, D_pcp is empty.
C22_D_pcpIsTheDescendantsOfX ==
    pc \in {"subsets", "done"} =>
        /\ properCausalPaths # <<>> =>
              /\ D_pcp = Range(findDescendants(G, X))
              /\ D_pcp = Desc(G, X)
              /\ \A k \in 1..Len(validSets) :
                    Range(validSets[k]) \cap Desc(G, X) = {}
        /\ properCausalPaths = <<>> => D_pcp = {}

\* listMAdj returned sets although V names a descendant of X from which no
\* directed path leads to Y; the candidates holding it were rejected.
C22_Witness ==
    /\ pc = "done"
    /\ properCausalPaths # <<>>
    /\ validSets # <<>>
    /\ rejected > 0
    /\ \E v \in Names(V) \cap (Desc(G, X) \ {X}) : Y \notin Desc(G, v)

\* ------------------------------------------------------ the stack loops
LoopNodes == 1..NumLoopNodes

\* Every directed graph on LoopNodes without self-loops, cycles included.
LoopGraphs ==
    {[node |-> LoopNodes, edge |-> E] :
        E \in SUBSET {e \in LoopNodes \X LoopNodes : e[1] # e[2]}}

\* The nodes one or more edges away from n.
StrictDesc(H, n) == ReachFwd(H, {e[2] : e \in {d \in H.edge : d[1] = n}})

IsAcyclic(H) == \A n \in H.node : n \notin StrictDesc(H, n)

\* A directed cycle of H can be reached from x.
CycleReachableFrom(H, x) == \E n \in Desc(H, x) : n \in StrictDesc(H, n)

\* The generated lists V that name nodes of the graphs on LoopNodes only.
LoopV(x, y) ==
    {Vl \in GeneratedV(x, y) :
        \A k \in 1..Len(Vl) :
            Vl[k][1] \in LoopNodes /\ Vl[k][2] \in LoopNodes \cup {None}}

\* No listMAdj call is under way; stk and i belong to the helper that runs.
HelperRuns ==
    /\ X = None /\ Y = None /\ V = <<>>
    /\ pathSoFar = <<>> /\ paths = <<>>
    /\ properCausalPaths = <<>>
    /\ D_pcp = {}
    /\ Z = <<>> /\ R_W = <<>>
    /\ G_pbd = NoGraph
    /\ validSets = <<>>
    /\ bestSet = <<>>
    /\ rejected = 0

\* One of three calls starts: listMAdj(G, x, y, V) on a graph that is
\* acyclic or has a cycle x can reach (nx.d_separated rejects the other
\* graphs with a cycle), findDescendants(G, source) or isAncestor(G, x, V)
\* on an acyclic graph.
InitLoops ==
    \/ /\ \E g \in LoopGraphs :
          \E xy \in {p \in LoopNodes \X LoopNodes : p[1] # p[2]} :
          \E Vl \in LoopV(xy[1], xy[2]) :
              /\ IsAcyclic(g) \/ CycleReachableFrom(g, xy[1])
              /\ InitWith([G |-> g, X |-> xy[1], Y |-> xy[2], V |-> Vl])
       /\ NoCall /\ NoQuery
    \/ /\ G \in {g \in LoopGraphs : IsAcyclic(g)}
       /\ pc = "findDescendants"
       /\ \E source \in G.node :
             /\ call = <<"findDescendants", source>>
             /\ stk = <<source>>
       /\ ret = <<>>
       /\ i = 0
       /\ HelperRuns /\ NoQuery
    \/ /\ G \in {g \in LoopGraphs : IsAcyclic(g)}
       /\ pc = "isAncestor"
       /\ \E x \in G.node, Vl \in NodeLists(G) : call = <<"isAncestor", x, Vl>>
       /\ stk = <<>>
       /\ ret = <<>>
       /\ i = 0
       /\ HelperRuns /\ NoQuery

\* One iteration of the while loop of findDescendants; ret is the list
\* descendants.
FindDescendantsStep ==
    /\ pc = "findDescendants"
    /\ Len(stk) > 0
    /\ LET curVertex == Last(stk)
       IN /\ ret' = Append(ret, curVertex)
          /\ stk' = Front(stk) \o successors(G, curVertex)
    /\ UNCHANGED <<G, pc, call, i, X, Y, V, pathSoFar, paths, properCausalPaths,
                   D_pcp, Z, R_W, G_pbd, validSets, bestSet, rejected>>
    /\ UNCHANGED queryVars

\* The stack is empty: findDescendants returns descendants.
FindDescendantsReturn ==
    /\ pc = "findDescendants"
    /\ Len(stk) = 0
    /\ pc' = "returned"
    /\ UNCHANGED <<G, listVars, helperVars, queryVars>>

\* The for loop of isAncestor(G, x, V) takes the next vertex of V and starts
\* a stack with it; i counts the vertices taken.
IsAncestorNextVertex ==
    /\ pc = "isAncestor"
    /\ Len(stk) = 0
    /\ i < Len(call[3])
    /\ i' = i + 1
    /\ stk' = <<call[3][i + 1]>>
    /\ UNCHANGED <<G, pc, call, ret, X, Y, V, pathSoFar, paths, properCausalPaths,
                   D_pcp, Z, R_W, G_pbd, validSets, bestSet, rejected>>
    /\ UNCHANGED queryVars

\* One iteration of the while loop of isAncestor: return True when x is
\* popped, else push the parents.  ret is the empty list while isAncestor
\* runs and the list of the one value it returned afterwards.
IsAncestorStep ==
    /\ pc = "isAncestor"
    /\ Len(stk) > 0
    /\ LET curVertex == Last(stk)
       IN IF curVertex = call[2]
          THEN /\ stk' = Front(stk)
               /\ ret' = <<TRUE>>
               /\ pc' = "returned"
          ELSE /\ stk' = Front(stk) \o predecessors(G, curVertex)
               /\ UNCHANGED <<ret, pc>>
    /\ UNCHANGED <<G, call, i, X, Y, V, pathSoFar, paths, properCausalPaths,
                   D_pcp, Z, R_W, G_pbd, validSets, bestSet, rejected>>
    /\ UNCHANGED queryVars

\* The for loop is over: isAncestor returns False.
IsAncestorReturnFalse ==
    /\ pc = "isAncestor"
    /\ Len(stk) = 0
    /\ i = Len(call[3])
    /\ pc' = "returned"
    /\ ret' = <<FALSE>>
    /\ UNCHANGED <<G, call, listVars, queryVars>>

NextLoops ==
    \/ DFSStep \/ DFSReturn \/ BuildD_pcp \/ Candidate \/ Return
    \/ FindDescendantsStep \/ FindDescendantsReturn
    \/ IsAncestorNextVertex \/ IsAncestorStep \/ IsAncestorReturnFalse

\* Where a call is: every step changes it.
position == <<pc, stk, pathSoFar, i>>

\* The program is sequential and never waits: while a step is possible one
\* is taken.
SpecLoops == InitLoops /\ [][NextLoops]_vars /\ WF_position(NextLoops)

\* The call that was started has returned.
Finished == pc \in {"returned", "done"}

\* listMAdj is the call that was started.
ListMAdjRuns == X # None

\* What holds of the loops at every moment: when findProperCausalPath or
\* findDescendants has returned its stack is empty, and the results are
\* those of the functions; listMAdj evaluates at most 2^n candidates; on a
\* graph with a cycle X can reach findProperCausalPath is still in its loop
\* with entries on the stack.
LoopsSafety ==
    /\ ListMAdjRuns /\ Returned => stk = <<>> /\ IsAcyclic(G)
    /\ ListMAdjRuns => i <= Pow2(varNum) /\ Len(validSets) + rejected = i
    /\ pc = "done" => i = Pow2(varNum)
    /\ ListMAdjRuns /\ CycleReachableFrom(G, X) =>
          pc = "findProperCausalPath" /\ Len(stk) > 0
    /\ IF pc = "returned" /\ call[1] = "findDescendants"
       THEN stk = <<>> /\ ret = findDescendants(G, call[2])
       ELSE TRUE
    /\ IF pc = "returned" /\ call[1] = "isAncestor"
       THEN ret = <<isAncestor(G, call[2], call[3])>>
       ELSE TRUE

====
